---- MODULE Spec2Model ----
(***************************************************************************)
(* Content lifecycle orchestrator of the AI content posting agent:         *)
(*   - the system control gate (core/controls/system_controls.py and the   *)
(*     control endpoints),                                                 *)
(*   - the approval workflow state machine (core/workflows/                *)
(*     approval_engine.py),                                                *)
(*   - post scheduling, cancellation and the dispatch task                 *)
(*     (api/v1/endpoints/posts.py), and the soft delete of a draft         *)
(*     (api/v1/endpoints/content.py).                                      *)
(*                                                                         *)
(* Specifications:                                                         *)
(*   Spec          scheduling and dispatch in one server process, from a   *)
(*                 store that holds approved drafts: every handler runs    *)
(*                 from one real suspension point (asyncio.sleep) to the   *)
(*                 next; the dispatch task is cut at its two sleeps.       *)
(*   SpecApproval  generation, review and soft delete of drafts, from an   *)
(*                 empty store.                                            *)
(*   SpecSession   the approval workflow driven through one long-lived     *)
(*                 store session, as the test script drives it.            *)
(*   SpecFaults    scheduling and dispatch with exceptions raised inside    *)
(*                 the dispatch task.                                      *)
(*   SpecPipeline  generation, approval, scheduling and dispatch on one     *)
(*                 store, from an empty store.                             *)
(*   SpecReposts   one draft scheduled, cancelled and dispatched again and  *)
(*                 again.                                                  *)
(*   SpecObservers one SystemControls object with registered callbacks.    *)
(*   SpecGate      control requests issued by several processes bound to   *)
(*                 the same store (server workers, the test script): each  *)
(*                 request builds its own SystemControls, so its lock      *)
(*                 excludes nobody; requests interleave between store      *)
(*                 transactions.                                           *)
(***************************************************************************)
EXTENDS Naturals, Integers, Sequences, FiniteSets

VARIABLES
    now,            \* datetime.utcnow(), in minutes; it advances while a task sleeps
    db_status,      \* the SystemStatus row of the store (NoRow when absent)
    audit,          \* the AuditLog rows written by _log_audit, oldest first
    reqs,           \* control requests of SpecGate: each its own SystemControls
    draft_status,   \* ContentDraft.status, one entry per ContentDraft row
    approvals,      \* the ApprovalRequest rows, by id
    posts,          \* the ScheduledPost rows, by id
    tasks,          \* the dispatch tasks (_process_scheduled_post), by creation
    publish_calls   \* per ScheduledPost: invocations of _mock_post_to_platform

vars == <<now, db_status, audit, reqs, draft_status, approvals, posts, tasks,
          publish_calls>>

(***************************************************************************)
(* Bounds of the model.                                                    *)
(***************************************************************************)
NumRequests == 2    \* control requests of SpecGate
MaxDrafts == 2      \* ContentDraft rows generated in SpecApproval
MaxApprovals == 2   \* ApprovalRequest rows
MaxPosts == 2       \* ScheduledPost rows
MaxReposts == 3     \* ScheduledPost rows of SpecReposts
MaxObservers == 2   \* callbacks of one kind registered on a SystemControls

(***************************************************************************)
(* System control gate: core/controls/system_controls.py                   *)
(***************************************************************************)
SystemMode == {"normal", "manual", "crisis"}

ControlAction == {"pause", "resume", "set_manual", "set_crisis", "set_normal"}

\* user_id of execute_action: None (the parameter's default) or a user id
NoUser == 0
AdminUser == 1
ReviewerUser == 2
ClientUser == 3

GateState == [mode : SystemMode, paused : BOOLEAN]

NoRow == [mode |-> "absent", paused |-> FALSE]

\* SystemControls.__init__: current_mode = NORMAL, is_paused = False
NewControls == [mode |-> "normal", paused |-> FALSE]

\* SystemControls.initialize: the in-memory state after loading the row,
\* or the constructor's defaults when there is no row
LoadControls(row) == IF row = NoRow THEN NewControls ELSE row

\* SystemControls.initialize on an object that has no session (self.db is
\* None and no db is passed): nothing is loaded and nothing is written
initialize_without_db(c) == c

\* main.py: the module-level SystemControls(), constructed without a
\* session and initialized by startup_event; no endpoint calls
\* execute_action on it, the control endpoints build an object of their own
system_controls == initialize_without_db(NewControls)

\* main.py health_check: system_mode = system_controls.get_mode()
health_check_system_mode == system_controls.mode

\* an initialize that writes the constructor's defaults every time
InitializedRowDefaults(row) == NewControls

\* SystemControls.initialize: the row after the call (created when absent)
InitializedRow(row) == IF row = NoRow THEN NewControls ELSE row

\* a pause that flips the flag
_pause_system_toggle(c) == [c EXCEPT !.paused = ~c.paused]

_pause_system(c) == [c EXCEPT !.paused = TRUE]

_resume_system(c) == [c EXCEPT !.paused = FALSE]

\* a manual mode that leaves the pause flag as it was
_set_manual_mode_keeps_pause(c) == [c EXCEPT !.mode = "manual"]

_set_manual_mode(c) == [mode |-> "manual", paused |-> FALSE]

_set_crisis_mode(c) == [mode |-> "crisis", paused |-> TRUE]

_set_normal_mode(c) == [mode |-> "normal", paused |-> FALSE]

\* the dispatch on action inside execute_action
ApplyAction(action, c) ==
    CASE action = "pause" -> _pause_system(c)
      [] action = "resume" -> _resume_system(c)
      [] action = "set_manual" -> _set_manual_mode(c)
      [] action = "set_crisis" -> _set_crisis_mode(c)
      [] action = "set_normal" -> _set_normal_mode(c)

\* _update_database_status: the row takes the in-memory mode and pause flag
_update_database_status(c) == [mode |-> c.mode, paused |-> c.paused]

\* _log_audit: one row, written only when user_id is truthy
_log_audit(log, action, user_id, before, after) ==
    IF user_id # NoUser
    THEN Append(log, [action |-> action, user_id |-> user_id,
                      previous_mode |-> before.mode,
                      previous_paused |-> before.paused,
                      new_mode |-> after.mode, new_paused |-> after.paused])
    ELSE log

can_auto_approve(c) == c.mode = "normal" /\ ~c.paused

\* a check of the pause flag alone
can_auto_post_unpaused(c) == ~c.paused

can_auto_post(c) == c.mode = "normal" /\ ~c.paused

can_generate_content(c) == c.mode # "crisis"

is_crisis_mode(c) == c.mode = "crisis"

\* get_status (without last_updated, the time initialize read from the row)
get_status(c) ==
    [mode |-> c.mode, is_paused |-> c.paused,
     can_auto_approve |-> can_auto_approve(c),
     can_auto_post |-> can_auto_post(c),
     can_generate_content |-> can_generate_content(c)]

(***************************************************************************)
(* Control requests (api/v1/endpoints/control.py, pause_system), as        *)
(* issued by several processes on one store.  A request is cut between     *)
(* `await system_controls.initialize()` and `await execute_action(...)`.   *)
(***************************************************************************)
ReqIds == 1..NumRequests

\* a SystemControls object and the call made on it.  pc: idle (not yet
\* constructed), ready (constructed and initialized), done (execute_action
\* returned its result), raised (execute_action raised).  A callback is
\* represented by whether it raises when called.
IdleReq == [pc |-> "idle", action |-> "pause", user_id |-> NoUser,
            controls |-> NewControls, previous |-> NewControls,
            pause_callbacks |-> <<>>, mode_change_callbacks |-> <<>>,
            invoked |-> <<>>]

\* _execute_pause_callbacks with the try/except outside the loop: the first
\* callback that raises ends the loop
_execute_pause_callbacks_abort(callbacks, is_paused) ==
    LET failing == {i \in DOMAIN callbacks : callbacks[i]}
        last == IF failing = {} THEN Len(callbacks)
                ELSE CHOOSE i \in failing : \A k \in failing : i <= k
    IN [i \in 1..last |-> [kind |-> "pause", index |-> i, value |-> is_paused]]

\* _execute_pause_callbacks: the calls made, in order; an exception of a
\* callback is caught inside the loop and logged
_execute_pause_callbacks(callbacks, is_paused) ==
    [i \in DOMAIN callbacks |->
        [kind |-> "pause", index |-> i, value |-> is_paused]]

\* _execute_crisis_callbacks: logs a warning and calls nothing
_execute_crisis_callbacks(callbacks) == <<>>

\* the callbacks called by execute_action(action) on the object obj, whose
\* state the action has just set to after
CallbacksInvoked(action, obj, after) ==
    CASE action = "pause" ->
            _execute_pause_callbacks(obj.pause_callbacks, after.paused)
      [] action = "set_crisis" ->
            _execute_pause_callbacks(obj.pause_callbacks, after.paused)
               \o _execute_crisis_callbacks(obj.mode_change_callbacks)
      [] OTHER -> <<>>

\* pause_system, lines 66-67: SystemControls(db); await initialize()
ControlBegin(r, action, user_id) ==
    /\ reqs[r].pc = "idle"
    /\ reqs' = [reqs EXCEPT ![r] = [IdleReq EXCEPT
                                      !.pc = "ready", !.action = action,
                                      !.user_id = user_id,
                                      !.controls = LoadControls(db_status)]]
    /\ db_status' = InitializedRow(db_status)
    /\ UNCHANGED <<now, audit, draft_status, approvals, posts, tasks,
                   publish_calls>>

\* SystemControls.initialize called again on an object that has it behind it
initialize(r) ==
    /\ reqs[r].pc = "ready"
    /\ reqs' = [reqs EXCEPT ![r].controls = LoadControls(db_status)]
    /\ db_status' = InitializedRow(db_status)
    /\ UNCHANGED <<now, audit, draft_status, approvals, posts, tasks,
                   publish_calls>>

\* pause_system, lines 69-74: execute_action under the object's own lock
ControlExecute(r) ==
    /\ reqs[r].pc = "ready"
    /\ LET before == reqs[r].controls
           after == ApplyAction(reqs[r].action, before)
       IN /\ db_status' = _update_database_status(after)
          /\ audit' = _log_audit(audit, reqs[r].action, reqs[r].user_id,
                                 before, after)
          /\ reqs' = [reqs EXCEPT
                        ![r].pc = "done", ![r].controls = after,
                        ![r].previous = before,
                        ![r].invoked =
                            CallbacksInvoked(reqs[r].action, reqs[r], after)]
    /\ UNCHANGED <<now, draft_status, approvals, posts, tasks, publish_calls>>

\* execute_action when the commit of _update_database_status (line 186)
\* raises: the except clause logs and raises again (lines 137-139); the
\* object keeps the state the action set, the row and the audit log stay
ControlExecuteCommitFails(r) ==
    /\ reqs[r].pc = "ready"
    /\ LET before == reqs[r].controls
           after == ApplyAction(reqs[r].action, before)
       IN reqs' = [reqs EXCEPT
                     ![r].pc = "raised", ![r].controls = after,
                     ![r].previous = before,
                     ![r].invoked =
                         CallbacksInvoked(reqs[r].action, reqs[r], after)]
    /\ UNCHANGED <<now, db_status, audit, draft_status, approvals, posts,
                   tasks, publish_calls>>

\* register_pause_callback
register_pause_callback(r, raises) ==
    /\ reqs[r].pc = "ready"
    /\ Len(reqs[r].pause_callbacks) < MaxObservers
    /\ reqs' = [reqs EXCEPT ![r].pause_callbacks = Append(@, raises)]
    /\ UNCHANGED <<now, db_status, audit, draft_status, approvals, posts,
                   tasks, publish_calls>>

\* register_mode_change_callback
register_mode_change_callback(r, raises) ==
    /\ reqs[r].pc = "ready"
    /\ Len(reqs[r].mode_change_callbacks) < MaxObservers
    /\ reqs' = [reqs EXCEPT ![r].mode_change_callbacks = Append(@, raises)]
    /\ UNCHANGED <<now, db_status, audit, draft_status, approvals, posts,
                   tasks, publish_calls>>

InitStore ==
    /\ now = 0
    /\ db_status = NoRow
    /\ audit = <<>>
    /\ reqs = [r \in ReqIds |-> IdleReq]
    /\ draft_status = <<>>
    /\ approvals = <<>>
    /\ posts = <<>>
    /\ tasks = <<>>
    /\ publish_calls = <<>>

NextGate ==
    \/ \E r \in ReqIds, a \in ControlAction, u \in {NoUser, AdminUser} :
          ControlBegin(r, a, u)
    \/ \E r \in ReqIds : initialize(r)
    \/ \E r \in ReqIds : ControlExecute(r)
    \/ \E r \in ReqIds : ControlExecuteCommitFails(r)

SpecGate == InitStore /\ [][NextGate]_vars

\* one SystemControls object with callbacks registered on it between its
\* initialize and its execute_action (the object of a long-lived process)
NextObservers ==
    \/ \E a \in ControlAction : ControlBegin(1, a, AdminUser)
    \/ \E raises \in BOOLEAN : register_pause_callback(1, raises)
    \/ \E raises \in BOOLEAN : register_mode_change_callback(1, raises)
    \/ ControlExecute(1)
    \/ ControlExecuteCommitFails(1)

SpecObservers == InitStore /\ [][NextObservers]_vars


\* SystemControls.execute_action on a fresh object of the server process
\* (initialize and execute_action run without a suspension in between)
execute_action(action, user_id) ==
    /\ LET before == LoadControls(db_status)
           after == ApplyAction(action, before)
       IN /\ db_status' = _update_database_status(after)
          /\ audit' = _log_audit(audit, action, user_id, before, after)
    /\ UNCHANGED <<now, reqs, draft_status, approvals, posts, tasks,
                   publish_calls>>

(***************************************************************************)
(* Approval workflow state machine: core/workflows/approval_engine.py      *)
(***************************************************************************)
ContentStatus ==
    {"draft", "pending_review", "approved", "rejected", "changes_requested",
     "scheduled", "published", "archived", "cancelled"}

ApprovalStatus == {"pending", "approved", "rejected", "changes_requested"}

TRANSITIONS ==
    [s \in ContentStatus |->
        CASE s = "draft" -> {"pending_review", "archived"}
          [] s = "pending_review" ->
                {"approved", "rejected", "changes_requested", "archived"}
          [] s = "changes_requested" -> {"draft", "pending_review", "archived"}
          [] s = "approved" -> {"scheduled", "archived", "cancelled"}
          [] s = "rejected" -> {"archived"}
          [] s = "scheduled" -> {"published", "cancelled", "archived"}
          [] s = "published" -> {"archived"}
          [] s = "cancelled" -> {"archived"}
          [] s = "archived" -> {}]

\* a lookup that also lets a status stay as it is
can_transition_or_stay(current_status, target_status) ==
    \/ current_status = target_status
    \/ target_status \in TRANSITIONS[current_status]

can_transition(current_status, target_status) ==
    target_status \in TRANSITIONS[current_status]

DraftIds == 1..MaxDrafts
ApprovalIds == 1..MaxApprovals
PostIds == 1..MaxPosts

\* a lookup that never finds the pending request
FirstPendingNone(rows, draft_id) == 0

\* the first pending ApprovalRequest of a draft (query ... .first()), 0 if none
FirstPending(rows, draft_id) ==
    LET S == {a \in DOMAIN rows : /\ rows[a].content_draft_id = draft_id
                                   /\ rows[a].status = "pending"}
    IN IF S = {} THEN 0 ELSE CHOOSE a \in S : \A b \in S : a <= b

\* content.py generate_content: the status code of the response
generate_content_code ==
    IF ~can_generate_content(LoadControls(db_status)) THEN 423 ELSE 200

\* content.py generate_content: refused only when can_generate_content() is
\* false; ContentAgent.generate_content stores the new draft as DRAFT
generate_content ==
    /\ db_status' = InitializedRow(db_status)
    /\ IF generate_content_code = 200
       THEN /\ Len(draft_status) < MaxDrafts
            /\ draft_status' = Append(draft_status, "draft")
       ELSE UNCHANGED draft_status
    /\ UNCHANGED <<now, audit, reqs, approvals, posts, tasks, publish_calls>>

delete_content_draft_code(draft_id) ==
    IF draft_id \notin DOMAIN draft_status THEN 404 ELSE 200

\* content.py delete_content_draft: soft delete, from any status
delete_content_draft(draft_id) ==
    /\ IF delete_content_draft_code(draft_id) = 200
       THEN draft_status' = [draft_status EXCEPT ![draft_id] = "archived"]
       ELSE UNCHANGED draft_status
    /\ UNCHANGED <<now, db_status, audit, reqs, approvals, posts, tasks,
                   publish_calls>>

\* a submit that only checks that the draft exists
submit_for_approval_code_any_status(draft_id) ==
    IF draft_id \notin DOMAIN draft_status THEN 400 ELSE 200

\* submit_for_approval: a ValueError becomes a 400 in the endpoint
submit_for_approval_code(draft_id) ==
    IF \/ draft_id \notin DOMAIN draft_status
       \/ draft_status[draft_id] # "draft"
    THEN 400 ELSE 200

\* ApprovalWorkflow.submit_for_approval
submit_for_approval(draft_id, user_id) ==
    /\ IF submit_for_approval_code(draft_id) = 200
       THEN /\ Len(approvals) < MaxApprovals
            /\ draft_status' =
                  [draft_status EXCEPT ![draft_id] = "pending_review"]
            /\ approvals' = Append(approvals,
                  [content_draft_id |-> draft_id, requested_by |-> user_id,
                   status |-> "pending", reviewer_id |-> NoUser,
                   reviewed |-> FALSE])
       ELSE UNCHANGED <<draft_status, approvals>>
    /\ UNCHANGED <<now, db_status, audit, reqs, posts, tasks, publish_calls>>

\* a decision mapping that turns every decision into a rejection
DecisionTargetRejects(action) ==
    CASE action \in {"approved", "rejected", "changes_requested"} -> "rejected"
      [] OTHER -> "none"

\* process_approval, lines 152-159: decision -> target ContentStatus
\* ("none" stands for the ValueError of an action that is no decision)
DecisionTarget(action) ==
    CASE action = "approved" -> "approved"
      [] action = "rejected" -> "rejected"
      [] action = "changes_requested" -> "changes_requested"
      [] OTHER -> "none"

\* a decision that only checks that the request exists
process_approval_code_exists_only(approval_id, action) ==
    IF approval_id \notin DOMAIN approvals THEN 400 ELSE 200

\* process_approval: every ValueError becomes a 400 in the endpoint
process_approval_code(approval_id, action) ==
    IF \/ approval_id \notin DOMAIN approvals
       \/ approvals[approval_id].status # "pending"
       \/ DecisionTarget(action) = "none"
       \/ ~can_transition(
              draft_status[approvals[approval_id].content_draft_id],
              DecisionTarget(action))
    THEN 400 ELSE 200

\* ApprovalWorkflow.process_approval.  The request's fields are assigned
\* before the checks; a ValueError leaves the session uncommitted, and the
\* endpoint's session is closed with the request, so the store keeps its rows.
process_approval(approval_id, action, reviewer_id) ==
    /\ IF process_approval_code(approval_id, action) = 200
       THEN /\ approvals' = [approvals EXCEPT ![approval_id] =
                  [@ EXCEPT !.status = action, !.reviewer_id = reviewer_id,
                            !.reviewed = TRUE]]
            /\ draft_status' = [draft_status EXCEPT
                  ![approvals[approval_id].content_draft_id] =
                      DecisionTarget(action)]
       ELSE UNCHANGED <<draft_status, approvals>>
    /\ UNCHANGED <<now, db_status, audit, reqs, posts, tasks, publish_calls>>

request_changes_code(draft_id) ==
    IF \/ draft_id \notin DOMAIN draft_status
       \/ draft_status[draft_id] \notin {"pending_review", "changes_requested"}
    THEN 400 ELSE 200

\* ApprovalWorkflow.request_changes
request_changes(draft_id, reviewer_id) ==
    /\ IF request_changes_code(draft_id) = 200
       THEN LET a == FirstPending(approvals, draft_id)
            IN /\ draft_status' =
                     [draft_status EXCEPT ![draft_id] = "changes_requested"]
               /\ IF a # 0
                  THEN approvals' = [approvals EXCEPT ![a] =
                          [@ EXCEPT !.status = "changes_requested",
                                    !.reviewer_id = reviewer_id,
                                    !.reviewed = TRUE]]
                  ELSE /\ Len(approvals) < MaxApprovals
                       /\ approvals' = Append(approvals,
                             [content_draft_id |-> draft_id,
                              requested_by |-> reviewer_id,
                              status |-> "changes_requested",
                              reviewer_id |-> reviewer_id,
                              reviewed |-> TRUE])
       ELSE UNCHANGED <<draft_status, approvals>>
    /\ UNCHANGED <<now, db_status, audit, reqs, posts, tasks, publish_calls>>

\* ApprovalWorkflow.get_pending_approvals: the ids of the pending requests,
\* filtered on the reviewer_id column when the argument is truthy, ordered by
\* requested_at (the order of creation)
get_pending_approvals(reviewer_id) ==
    LET Listed(a) ==
           /\ approvals[a].status = "pending"
           /\ (reviewer_id # NoUser => approvals[a].reviewer_id = reviewer_id)
    IN SelectSeq([a \in 1..Len(approvals) |-> a], Listed)

\* GET /approval/pending: admins and reviewers list without an argument, a
\* client lists with its own user id as the argument
pending_listing(user_id) ==
    IF user_id \in {AdminUser, ReviewerUser}
    THEN get_pending_approvals(NoUser)
    ELSE get_pending_approvals(user_id)

NextApproval ==
    \/ generate_content
    \/ \E d \in DraftIds : delete_content_draft(d)
    \/ \E d \in DraftIds : submit_for_approval(d, ClientUser)
    \/ \E a \in ApprovalIds, action \in ApprovalStatus :
          process_approval(a, action, ReviewerUser)
    \/ \E d \in DraftIds : request_changes(d, ReviewerUser)
    \/ \E action \in ControlAction : execute_action(action, NoUser)

SpecApproval == InitStore /\ [][NextApproval]_vars

\* ApprovalWorkflow.process_approval called on a session that lives on after
\* the call (test_backend.py: one SessionLocal() for the whole script).
\* approvals and draft_status are the rows as that session holds them: the
\* request's fields are assigned (lines 146-149) before the decision and the
\* transition are checked (lines 151-165), the ValueError rolls nothing back,
\* and the session's next commit writes the assigned fields to the store.
process_approval_in_session(approval_id, action, reviewer_id) ==
    /\ IF \/ approval_id \notin DOMAIN approvals
          \/ approvals[approval_id].status # "pending"
       THEN UNCHANGED <<draft_status, approvals>>
       ELSE /\ approvals' = [approvals EXCEPT ![approval_id] =
                  [@ EXCEPT !.status = action, !.reviewer_id = reviewer_id,
                            !.reviewed = TRUE]]
            /\ IF process_approval_code(approval_id, action) = 200
               THEN draft_status' = [draft_status EXCEPT
                       ![approvals[approval_id].content_draft_id] =
                           DecisionTarget(action)]
               ELSE UNCHANGED draft_status
    /\ UNCHANGED <<now, db_status, audit, reqs, posts, tasks, publish_calls>>

\* the workflow driven through one long-lived session, next to the delete
\* endpoint
NextSession ==
    \/ generate_content
    \/ \E d \in DraftIds : delete_content_draft(d)
    \/ \E d \in DraftIds : submit_for_approval(d, ClientUser)
    \/ \E a \in ApprovalIds, action \in ApprovalStatus :
          process_approval_in_session(a, action, ReviewerUser)
    \/ \E d \in DraftIds : request_changes(d, ReviewerUser)

SpecSession == InitStore /\ [][NextSession]_vars

(***************************************************************************)
(* Scheduling and dispatch: api/v1/endpoints/posts.py                      *)
(***************************************************************************)
\* timedelta(minutes=5) of the gate-blocked branch
BackoffMinutes == 5

\* request.scheduled_for, relative to the time of the request
ScheduleOffsets == {-1, 0, 1}

PostStatus == {"pending", "posted", "failed", "cancelled"}

NewPost(draft_id, scheduled_for) ==
    [content_draft_id |-> draft_id, scheduled_for |-> scheduled_for,
     status |-> "pending", posted_at |-> -1, post_id |-> 0,
     metrics |-> FALSE, error_message |-> ""]

\* a dispatch task: inline when publish_now awaits it, else a background task
NewTask(post_id, inline) ==
    [post |-> post_id, pc |-> "queued", wake |-> 0, inline |-> inline]

\* a post dispatched twice (the task both awaited and added as a background
\* task)
EnqueuedTasksTwice(post_id, inline) ==
    <<NewTask(post_id, inline), NewTask(post_id, FALSE)>>

\* the tasks started for a new ScheduledPost: one add_task / one await
EnqueuedTasks(post_id, inline) == <<NewTask(post_id, inline)>>

\* a gate check that forgets the crisis mode
GateBlocksPausedOnly(c) == c.paused

\* _process_scheduled_post, line 281
GateBlocks(c) == c.paused \/ is_crisis_mode(c)

\* _process_scheduled_post, line 284
RescheduledFor(scheduled_for, utcnow) == utcnow + BackoffMinutes

\* _process_scheduled_post, lines 272-300: from the start of the task to its
\* first suspension (the sleep until scheduled_for, or the sleep inside
\* _mock_post_to_platform) or to its return
TaskStarted(ps, ts, calls, row, t) ==
    LET p == ts[t].post
    IN IF ps[p].status # "pending"
       THEN [posts |-> ps, tasks |-> [ts EXCEPT ![t].pc = "skipped"],
             publish_calls |-> calls, db_status |-> row]
       ELSE IF GateBlocks(LoadControls(row))
       THEN [posts |-> [ps EXCEPT ![p].scheduled_for =
                           RescheduledFor(ps[p].scheduled_for, now)],
             tasks |-> [ts EXCEPT ![t].pc = "blocked"],
             publish_calls |-> calls, db_status |-> InitializedRow(row)]
       ELSE IF ps[p].scheduled_for > now
       THEN [posts |-> ps,
             tasks |-> [ts EXCEPT ![t].pc = "sleeping",
                                  ![t].wake = ps[p].scheduled_for],
             publish_calls |-> calls, db_status |-> InitializedRow(row)]
       ELSE [posts |-> ps, tasks |-> [ts EXCEPT ![t].pc = "posting"],
             publish_calls |-> [calls EXCEPT ![p] = @ + 1],
             db_status |-> InitializedRow(row)]

\* a schedule_post gated like publish_now (paused or crisis only)
schedule_post_code_manual_allowed(draft_id, scheduled_for) ==
    IF GateBlocks(LoadControls(db_status)) THEN 423
    ELSE IF draft_id \notin DOMAIN draft_status THEN 404
    ELSE IF draft_status[draft_id] # "approved" THEN 400
    ELSE IF scheduled_for < now THEN 400
    ELSE 200

\* schedule_post: the status code of the response
schedule_post_code(draft_id, scheduled_for) ==
    IF ~can_auto_post(LoadControls(db_status)) THEN 423
    ELSE IF draft_id \notin DOMAIN draft_status THEN 404
    ELSE IF draft_status[draft_id] # "approved" THEN 400
    ELSE IF scheduled_for < now THEN 400
    ELSE 200

\* schedule_post
schedule_post(draft_id, scheduled_for) ==
    /\ db_status' = InitializedRow(db_status)
    /\ IF schedule_post_code(draft_id, scheduled_for) = 200
       THEN /\ posts' = Append(posts, NewPost(draft_id, scheduled_for))
            /\ draft_status' = [draft_status EXCEPT ![draft_id] = "scheduled"]
            /\ tasks' = tasks \o EnqueuedTasks(Len(posts) + 1, FALSE)
            /\ publish_calls' = Append(publish_calls, 0)
       ELSE UNCHANGED <<draft_status, posts, tasks, publish_calls>>
    /\ UNCHANGED <<now, audit, reqs, approvals>>

\* cancel_scheduled_post: the status code of the response
cancel_scheduled_post_code(post_id) ==
    IF post_id \notin DOMAIN posts THEN 404 ELSE 200

\* cancel_scheduled_post
cancel_scheduled_post(post_id) ==
    /\ IF cancel_scheduled_post_code(post_id) = 200
       THEN /\ posts' = [posts EXCEPT ![post_id].status = "cancelled"]
            /\ draft_status' = [draft_status EXCEPT
                  ![posts[post_id].content_draft_id] = "approved"]
       ELSE UNCHANGED <<draft_status, posts>>
    /\ UNCHANGED <<now, db_status, audit, reqs, approvals, tasks,
                   publish_calls>>

\* the bound on the ScheduledPost rows of a run: a call that would add a row
\* is taken only while there are fewer than max rows
schedule_post_upto(max, draft_id, scheduled_for) ==
    /\ schedule_post_code(draft_id, scheduled_for) = 200 => Len(posts) < max
    /\ schedule_post(draft_id, scheduled_for)

\* publish_now: the status code of the checks before the post is created
publish_now_code(draft_id) ==
    IF GateBlocks(LoadControls(db_status)) THEN 423
    ELSE IF draft_id \notin DOMAIN draft_status THEN 404
    ELSE IF draft_status[draft_id] # "approved" THEN 400
    ELSE 200

\* publish_now: the post is created and the dispatch task awaited, which
\* runs at once up to its first suspension
publish_now(draft_id) ==
    /\ IF publish_now_code(draft_id) = 200
       THEN /\ LET r == TaskStarted(
                           Append(posts, NewPost(draft_id, now)),
                           tasks \o EnqueuedTasks(Len(posts) + 1, TRUE),
                           Append(publish_calls, 0),
                           InitializedRow(db_status), Len(tasks) + 1)
               IN /\ posts' = r.posts
                  /\ tasks' = r.tasks
                  /\ publish_calls' = r.publish_calls
                  /\ db_status' = r.db_status
            /\ draft_status' = [draft_status EXCEPT ![draft_id] = "scheduled"]
       ELSE /\ db_status' = InitializedRow(db_status)
            /\ UNCHANGED <<draft_status, posts, tasks, publish_calls>>
    /\ UNCHANGED <<now, audit, reqs, approvals>>

\* publish_now, lines 243-248: the ScheduledPost the response is built from
\* is the endpoint session's object as db.refresh loaded it before the
\* dispatch task was awaited; the task writes through a session of its own
\* (line 270), and the endpoint's session neither commits nor refreshes
\* after the await
publish_now_response(post_id) ==
    NewPost(posts[post_id].content_draft_id, posts[post_id].scheduled_for)

publish_now_upto(max, draft_id) ==
    /\ publish_now_code(draft_id) = 200 => Len(posts) < max
    /\ publish_now(draft_id)

\* _process_scheduled_post of a background task, up to its first suspension
process_start(t) ==
    /\ t \in DOMAIN tasks
    /\ tasks[t].pc = "queued"
    /\ LET r == TaskStarted(posts, tasks, publish_calls, db_status, t)
       IN /\ posts' = r.posts
          /\ tasks' = r.tasks
          /\ publish_calls' = r.publish_calls
          /\ db_status' = r.db_status
    /\ UNCHANGED <<now, audit, reqs, draft_status, approvals>>

\* _process_scheduled_post, lines 294-300: asyncio.sleep returns, which takes
\* the clock to the time slept for when it is not there yet, and
\* _mock_post_to_platform is invoked (no second look at the row)
process_wake(t) ==
    /\ t \in DOMAIN tasks
    /\ tasks[t].pc = "sleeping"
    /\ now' = IF now >= tasks[t].wake THEN now ELSE tasks[t].wake
    /\ tasks' = [tasks EXCEPT ![t].pc = "posting", ![t].wake = 0]
    /\ publish_calls' = [publish_calls EXCEPT ![tasks[t].post] = @ + 1]
    /\ UNCHANGED <<db_status, audit, reqs, draft_status, approvals, posts>>

\* a failure recorded without its error detail
RecordedOutcomeNoDetail(post, p, success, utcnow) ==
    IF success
    THEN [post EXCEPT !.status = "posted", !.posted_at = utcnow,
                      !.post_id = p, !.metrics = TRUE]
    ELSE [post EXCEPT !.status = "failed"]

\* _process_scheduled_post, lines 302-323: the fields assigned to the
\* ScheduledPost for the outcome of _mock_post_to_platform
RecordedOutcome(post, p, success, utcnow) ==
    IF success
    THEN [post EXCEPT !.status = "posted", !.posted_at = utcnow,
                      !.post_id = p, !.metrics = TRUE]
    ELSE [post EXCEPT !.status = "failed",
                      !.error_message = "Mock posting failed"]

\* _process_scheduled_post, lines 302-326: the outcome is written to the
\* session's objects and committed
process_outcome(t, success) ==
    /\ t \in DOMAIN tasks
    /\ tasks[t].pc = "posting"
    /\ LET p == tasks[t].post
       IN /\ posts' = [posts EXCEPT
                         ![p] = RecordedOutcome(posts[p], p, success, now)]
          /\ IF success
             THEN draft_status' = [draft_status EXCEPT
                     ![posts[p].content_draft_id] = "published"]
             ELSE UNCHANGED draft_status
    /\ tasks' = [tasks EXCEPT ![t].pc = "done"]
    /\ UNCHANGED <<now, db_status, audit, reqs, approvals, publish_calls>>

\* the drafts of the store Spec starts from
ApprovedDraftIds == {1}

\* the store once a draft has been generated (which creates the SystemStatus
\* row), submitted and approved
Init ==
    /\ now = 0
    /\ db_status = NewControls
    /\ audit = <<>>
    /\ reqs = [r \in ReqIds |-> IdleReq]
    /\ draft_status = [d \in ApprovedDraftIds |-> "approved"]
    /\ approvals = [d \in ApprovedDraftIds |->
          [content_draft_id |-> d, requested_by |-> ClientUser,
           status |-> "approved", reviewer_id |-> ReviewerUser,
           reviewed |-> TRUE]]
    /\ posts = <<>>
    /\ tasks = <<>>
    /\ publish_calls = <<>>

Next ==
    \/ \E d \in ApprovedDraftIds : delete_content_draft(d)
    \/ \E d \in ApprovedDraftIds, o \in ScheduleOffsets :
          schedule_post_upto(MaxPosts, d, now + o)
    \/ \E p \in PostIds : cancel_scheduled_post(p)
    \/ \E d \in ApprovedDraftIds : publish_now_upto(MaxPosts, d)
    \/ \E t \in DOMAIN tasks : process_start(t)
    \/ \E t \in DOMAIN tasks : process_wake(t)
    \/ \E t \in DOMAIN tasks, success \in BOOLEAN : process_outcome(t, success)
    \/ \E action \in ControlAction : execute_action(action, NoUser)

Spec == Init /\ [][Next]_vars

\* an except branch that marks the post failed without the error
AfterExceptionNoDetail(post, e, committed) ==
    IF committed THEN [post EXCEPT !.status = "failed"] ELSE post

\* _process_scheduled_post, lines 328-336: the except branch assigns
\* status and error_message and commits; when that commit raises too the
\* bare except swallows it and the row stays as the store has it
AfterException(post, e, committed) ==
    IF committed
    THEN [post EXCEPT !.status = "failed", !.error_message = e]
    ELSE post

\* _process_scheduled_post, lines 267-339: an exception raised after the
\* post was found pending -- by initialize() or the commit of the
\* gate-blocked branch (task not yet suspended), or by
\* _mock_post_to_platform or the commit of line 326 (task at the publish
\* action).  A commit that raises leaves nothing of its transaction in the
\* store, so the assignments of lines 303-317 are lost together; the
\* except branch then runs and the task returns.
process_exception(t, committed) ==
    /\ t \in DOMAIN tasks
    /\ \/ tasks[t].pc = "queued" /\ posts[tasks[t].post].status = "pending"
       \/ tasks[t].pc = "posting"
    /\ posts' = [posts EXCEPT ![tasks[t].post] =
                    AfterException(@, "exception", committed)]
    /\ tasks' = [tasks EXCEPT ![t].pc = "done"]
    /\ UNCHANGED <<now, db_status, audit, reqs, draft_status, approvals,
                   publish_calls>>

\* scheduling and dispatch with exceptions in the dispatch task
NextFaults ==
    \/ \E d \in ApprovedDraftIds, o \in ScheduleOffsets :
          schedule_post_upto(MaxPosts, d, now + o)
    \/ \E p \in PostIds : cancel_scheduled_post(p)
    \/ \E d \in ApprovedDraftIds : publish_now_upto(MaxPosts, d)
    \/ \E t \in DOMAIN tasks : process_start(t)
    \/ \E t \in DOMAIN tasks : process_wake(t)
    \/ \E t \in DOMAIN tasks, success \in BOOLEAN : process_outcome(t, success)
    \/ \E t \in DOMAIN tasks, committed \in BOOLEAN :
          process_exception(t, committed)
    \/ \E action \in {"pause", "resume"} : execute_action(action, NoUser)

SpecFaults == Init /\ [][NextFaults]_vars

\* scheduling, cancelling and dispatch of one draft again and again
NextReposts ==
    \/ \E d \in ApprovedDraftIds, o \in ScheduleOffsets :
          schedule_post_upto(MaxReposts, d, now + o)
    \/ \E p \in 1..MaxReposts : cancel_scheduled_post(p)
    \/ \E d \in ApprovedDraftIds : publish_now_upto(MaxReposts, d)
    \/ \E t \in DOMAIN tasks : process_start(t)
    \/ \E t \in DOMAIN tasks : process_wake(t)
    \/ \E t \in DOMAIN tasks, success \in BOOLEAN : process_outcome(t, success)

SpecReposts == Init /\ [][NextReposts]_vars

\* the whole pipeline on one store: generation, approval, scheduling and
\* dispatch, with the gate paused and resumed in between
NextPipeline ==
    \/ generate_content
    \/ \E d \in DraftIds : submit_for_approval(d, ClientUser)
    \/ \E a \in ApprovalIds, action \in {"approved", "rejected"} :
          process_approval(a, action, ReviewerUser)
    \/ \E d \in DraftIds, o \in ScheduleOffsets :
          schedule_post_upto(MaxPosts, d, now + o)
    \/ \E t \in DOMAIN tasks : process_start(t)
    \/ \E t \in DOMAIN tasks : process_wake(t)
    \/ \E t \in DOMAIN tasks, success \in BOOLEAN : process_outcome(t, success)
    \/ \E action \in {"pause", "resume"} : execute_action(action, NoUser)

SpecPipeline == InitStore /\ [][NextPipeline]_vars

(***************************************************************************)
(* Properties                                                              *)
(***************************************************************************)
TerminalPostStatus == {"posted", "failed", "cancelled"}

LiveTaskPc == {"queued", "sleeping", "posting"}

\* C1: every change of a ContentDraft's stored status goes from a status S
\* to a status T listed under S in TRANSITIONS.
C1_StatusChangesFollowTable ==
    [][\A d \in DOMAIN draft_status :
          draft_status'[d] # draft_status[d]
             => can_transition(draft_status[d], draft_status'[d])]_vars

\* the (mode, paused) pairs that applying the actions of the requests S one
\* after another, in any order, yields from the state c
RECURSIVE SerialResults(_, _)
SerialResults(S, c) ==
    IF S = {} THEN {c}
    ELSE UNION {SerialResults(S \ {r}, ApplyAction(reqs[r].action, c)) :
                  r \in S}

CompletedRequests == {r \in ReqIds : reqs[r].pc = "done"}

\* C2: once every control request that was begun has completed, the
\* persisted (mode, paused) is what applying the requests' actions one after
\* another in some order yields from the state persisted before them, and
\* one audit row per request exists (stated for requests made with a user
\* id, as the endpoints make them).
C2_Linearized ==
    ( /\ CompletedRequests # {}
      /\ \A r \in ReqIds : reqs[r].pc # "ready"
      /\ \A r \in CompletedRequests : reqs[r].user_id # NoUser )
    => /\ db_status \in SerialResults(CompletedRequests, NewControls)
       /\ Len(audit) = Cardinality(CompletedRequests)

\* C3: crisis implies paused, in the persisted state and in every
\* SystemControls object.
C3_CrisisImpliesPaused ==
    /\ db_status.mode = "crisis" => db_status.paused
    /\ \A r \in ReqIds :
          reqs[r].controls.mode = "crisis" => reqs[r].controls.paused

\* C4: cancel on a ScheduledPost whose status is posted, failed or cancelled
\* answers with an error and changes neither the post nor its draft.
C4_CancelTerminalFails ==
    [][\A p \in DOMAIN posts :
          (posts[p].status \in TerminalPostStatus /\ cancel_scheduled_post(p))
             => /\ cancel_scheduled_post_code(p) >= 400
                /\ posts' = posts
                /\ draft_status' = draft_status]_vars

\* C5: once a ScheduledPost is cancelled, the external publish action is not
\* invoked for it any more and its status stays cancelled.
C5_CancelledNeverPublished ==
    [][\A p \in DOMAIN posts :
          posts[p].status = "cancelled"
             => /\ posts'[p].status = "cancelled"
                /\ publish_calls'[p] = publish_calls[p]]_vars

\* C6: a dispatch task that finds its post pending and the persisted gate
\* paused or in crisis mode ends there: it invokes no external publish
\* action, the post stays pending and no draft status changes (a SCHEDULED
\* draft stays SCHEDULED).
C6_GateBlockedAttempt ==
    [][\A t \in DOMAIN tasks :
          ( /\ tasks[t].pc = "queued"
            /\ tasks'[t].pc # "queued"
            /\ posts[tasks[t].post].status = "pending"
            /\ (db_status.paused \/ db_status.mode = "crisis") )
          => /\ tasks'[t].pc = "blocked"
             /\ publish_calls' = publish_calls
             /\ posts'[tasks[t].post].status = "pending"
             /\ draft_status' = draft_status]_vars

\* C6 witness: a task was blocked by the crisis mode alone; its post is
\* pending, never published, and its draft SCHEDULED
C6_Witness ==
    \E t \in DOMAIN tasks :
       /\ tasks[t].pc = "blocked"
       /\ posts[tasks[t].post].status = "pending"
       /\ publish_calls[tasks[t].post] = 0
       /\ draft_status[posts[tasks[t].post].content_draft_id] = "scheduled"
       /\ db_status.mode = "crisis"
       /\ ~db_status.paused

\* C7: a gate-blocked dispatch attempt moves scheduled_for to its value
\* before the attempt plus the backoff interval.
C7_BackoffAddsToScheduledTime ==
    [][\A t \in DOMAIN tasks :
          (tasks[t].pc = "queued" /\ tasks'[t].pc = "blocked")
             => posts'[tasks[t].post].scheduled_for =
                   posts[tasks[t].post].scheduled_for + BackoffMinutes]_vars

\* C8: when a dispatch attempt is gate-blocked, a fresh dispatch task is
\* queued for the post.
C8_RescheduleOnBlock ==
    [][\A t \in DOMAIN tasks :
          (tasks[t].pc = "queued" /\ tasks'[t].pc = "blocked")
             => \E u \in DOMAIN tasks' :
                   /\ tasks'[u].post = tasks[t].post
                   /\ tasks'[u].pc \in LiveTaskPc]_vars

C10_TerminalImmutable ==
    [][\A p \in DOMAIN posts :
          posts[p].status \in TerminalPostStatus
             => posts'[p].status = posts[p].status]_vars

SpecifiedTransitions ==
    {<<"draft", "pending_review">>, <<"draft", "archived">>,
     <<"pending_review", "approved">>, <<"pending_review", "rejected">>,
     <<"pending_review", "changes_requested">>,
     <<"pending_review", "archived">>,
     <<"changes_requested", "draft">>,
     <<"changes_requested", "pending_review">>,
     <<"changes_requested", "archived">>,
     <<"approved", "scheduled">>, <<"approved", "archived">>,
     <<"approved", "cancelled">>,
     <<"rejected", "archived">>,
     <<"scheduled", "published">>, <<"scheduled", "cancelled">>,
     <<"scheduled", "archived">>,
     <<"published", "archived">>,
     <<"cancelled", "archived">>}

\* C12: can_transition is true exactly for the pairs of the specified table,
\* false for every self-pair; ARCHIVED is allowed from every other status and
\* allows nothing.  Stated for the nine statuses and for the status of every
\* stored draft.
C12_TransitionTable ==
    /\ \A s \in ContentStatus \cup
                  {draft_status[d] : d \in DOMAIN draft_status},
          t \in ContentStatus :
          can_transition(s, t) <=> <<s, t>> \in SpecifiedTransitions
    /\ \A s \in ContentStatus : ~can_transition(s, s)
    /\ \A s \in ContentStatus \ {"archived"} : can_transition(s, "archived")
    /\ \A t \in ContentStatus : ~can_transition("archived", t)

\* C12 witness: process_approval has consulted the table for a decision it
\* let through and for one it refused (a second decision on an archived
\* draft's request leaves draft and request as they were)
C12_Witness ==
    /\ \E a \in DOMAIN approvals :
          /\ approvals[a].status = "approved"
          /\ draft_status[approvals[a].content_draft_id] = "approved"
    /\ \E a \in DOMAIN approvals :
          /\ approvals[a].status = "pending"
          /\ draft_status[approvals[a].content_draft_id] = "archived"
          /\ process_approval_code(a, "approved") = 400

\* the state the specification gives for an action applied to the state c
SpecifiedResult(action, c) ==
    CASE action = "pause" -> [mode |-> c.mode, paused |-> TRUE]
      [] action = "resume" -> [mode |-> c.mode, paused |-> FALSE]
      [] action = "set_manual" -> [mode |-> "manual", paused |-> FALSE]
      [] action = "set_crisis" -> [mode |-> "crisis", paused |-> TRUE]
      [] action = "set_normal" -> [mode |-> "normal", paused |-> FALSE]

EndedRequests == {r \in ReqIds : reqs[r].pc \in {"done", "raised"}}

\* C13: from every (mode, paused) state each action yields the specified
\* state; every execute_action call that has ended left its object in the
\* specified state, and the persisted row is always one whole written state
\* (the defaults or the result of one completed call), never a mix.
C13_ActionTable ==
    /\ \A c \in GateState, a \in ControlAction :
          ApplyAction(a, c) = SpecifiedResult(a, c)
    /\ \A r \in EndedRequests :
          reqs[r].controls = SpecifiedResult(reqs[r].action, reqs[r].previous)
    /\ db_status \in {NoRow, [mode |-> "normal", paused |-> FALSE]}
                        \cup {reqs[r].controls : r \in CompletedRequests}

\* C13 witness: PAUSE was executed on an unpaused state, and SET_MANUAL
\* executed on a paused state left (MANUAL, false)
C13_Witness ==
    \E r \in CompletedRequests, q \in CompletedRequests :
       /\ reqs[r].action = "set_manual"
       /\ reqs[r].previous.paused
       /\ reqs[r].controls = [mode |-> "manual", paused |-> FALSE]
       /\ reqs[q].action = "pause"
       /\ ~reqs[q].previous.paused

\* C14: for every (mode, paused) state, can_generate_content is true iff the
\* mode is not crisis, can_auto_approve and can_auto_post iff the mode is
\* normal and the system not paused, and get_status reports these three
\* values with the mode and the pause flag.  Stated for the six states and
\* for the state of every SystemControls object.
C14_GatePredicates ==
    \A c \in GateState \cup {reqs[r].controls : r \in ReqIds} :
       /\ can_generate_content(c) <=> c.mode # "crisis"
       /\ can_auto_approve(c) <=> (c.mode = "normal" /\ ~c.paused)
       /\ can_auto_post(c) <=> (c.mode = "normal" /\ ~c.paused)
       /\ get_status(c) =
             [mode |-> c.mode, is_paused |-> c.paused,
              can_auto_approve |-> (c.mode = "normal" /\ ~c.paused),
              can_auto_post |-> (c.mode = "normal" /\ ~c.paused),
              can_generate_content |-> (c.mode # "crisis")]

\* C14 witness: an object in manual mode, not paused, reports that content
\* may be generated and nothing approved or posted automatically
C14_Witness ==
    \E r \in CompletedRequests :
       /\ reqs[r].controls = [mode |-> "manual", paused |-> FALSE]
       /\ get_status(reqs[r].controls).can_generate_content
       /\ ~get_status(reqs[r].controls).can_auto_post
       /\ ~get_status(reqs[r].controls).can_auto_approve

\* C15: while the persisted state is paused, generation, automatic approval
\* and automatic posting are all disallowed and the generate endpoint
\* refuses.
C15_PauseHaltsAutomation ==
    db_status.paused
       => /\ ~can_generate_content(LoadControls(db_status))
          /\ ~can_auto_approve(LoadControls(db_status))
          /\ ~can_auto_post(LoadControls(db_status))
          /\ generate_content_code >= 400

\* C16: every execute_action call that returned has written exactly one
\* audit row, holding its action, its actor and the state before and after.
C16_AuditPerAction ==
    /\ Len(audit) = Cardinality(CompletedRequests)
    /\ \A r \in CompletedRequests :
          \E i \in DOMAIN audit :
             audit[i] = [action |-> reqs[r].action,
                         user_id |-> reqs[r].user_id,
                         previous_mode |-> reqs[r].previous.mode,
                         previous_paused |-> reqs[r].previous.paused,
                         new_mode |-> reqs[r].controls.mode,
                         new_paused |-> reqs[r].controls.paused]

\* C17: every execute_action call that has ended, also one whose write to
\* the store failed, kept the state change in its object and ended by
\* returning a result, not by raising.
C17_PersistFailureIsDegradedSuccess ==
    \A r \in EndedRequests :
       /\ reqs[r].controls = SpecifiedResult(reqs[r].action, reqs[r].previous)
       /\ reqs[r].pc = "done"

\* C18: a PAUSE or SET_CRISIS call that has ended has called every
\* registered pause callback exactly once, in order, with the value true,
\* whichever of them raised, and has left its object paused.
C18_PauseObserversAllInvoked ==
    \A r \in EndedRequests :
       reqs[r].action \in {"pause", "set_crisis"}
          => /\ Len(reqs[r].invoked) = Len(reqs[r].pause_callbacks)
             /\ \A i \in DOMAIN reqs[r].pause_callbacks :
                   reqs[r].invoked[i] =
                      [kind |-> "pause", index |-> i, value |-> TRUE]
             /\ reqs[r].controls.paused

\* C18 witness: PAUSE returned its result with two callbacks registered,
\* the first of which raises
C18_Witness ==
    \E r \in CompletedRequests :
       /\ reqs[r].action = "pause"
       /\ reqs[r].pause_callbacks = <<TRUE, FALSE>>
       /\ Len(reqs[r].invoked) = 2
       /\ db_status.paused

\* C19: a SET_CRISIS call that has returned has called the pause callbacks
\* and after them every callback registered with
\* register_mode_change_callback.
C19_CrisisObserversInvoked ==
    \A r \in CompletedRequests :
       reqs[r].action = "set_crisis"
          => LET np == Len(reqs[r].pause_callbacks)
                 nm == Len(reqs[r].mode_change_callbacks)
             IN /\ Len(reqs[r].invoked) = np + nm
                /\ \A i \in 1..np : reqs[r].invoked[i].kind = "pause"
                /\ \A i \in (np + 1)..(np + nm) :
                      /\ reqs[r].invoked[i].kind = "mode_change"
                      /\ reqs[r].invoked[i].index = i - np

\* C20: initialize, on a new or on an initialized object, creates the row
\* (NORMAL, not paused) when the store has none, and otherwise leaves the row
\* as it is; after it the object's state equals the row.
C20_InitializeIdempotent ==
    [][\A r \in ReqIds :
          ( \/ \E a \in ControlAction, u \in {NoUser, AdminUser} :
                  ControlBegin(r, a, u)
            \/ initialize(r) )
          => /\ IF db_status = NoRow
                THEN db_status' = [mode |-> "normal", paused |-> FALSE]
                ELSE db_status' = db_status
             /\ reqs'[r].controls = db_status'
             /\ audit' = audit]_vars

\* C20 witness: after a completed call changed the row, an object was
\* initialized and holds the row's state
C20_Witness ==
    \E q \in CompletedRequests, r \in ReqIds :
       /\ reqs[r].pc = "ready"
       /\ db_status = reqs[q].controls
       /\ db_status # [mode |-> "normal", paused |-> FALSE]
       /\ reqs[r].controls = db_status

PendingOf(d) ==
    {a \in DOMAIN approvals : /\ approvals[a].content_draft_id = d
                               /\ approvals[a].status = "pending"}

Decisions == {"approved", "rejected", "changes_requested"}

\* C21: submit_for_approval succeeds exactly when the draft exists with
\* status DRAFT; a successful call makes the draft PENDING_REVIEW and adds
\* one ApprovalRequest, pending, requested by the caller; a failing call
\* changes no draft status and no ApprovalRequest.
C21_SubmitForApproval ==
    [][\A d \in DraftIds :
          /\ submit_for_approval_code(d) = 200
                <=> (d \in DOMAIN draft_status /\ draft_status[d] = "draft")
          /\ submit_for_approval(d, ClientUser)
                => IF d \in DOMAIN draft_status /\ draft_status[d] = "draft"
                   THEN /\ draft_status' =
                              [draft_status EXCEPT ![d] = "pending_review"]
                        /\ Len(approvals') = Len(approvals) + 1
                        /\ SubSeq(approvals', 1, Len(approvals)) = approvals
                        /\ approvals'[Len(approvals')].content_draft_id = d
                        /\ approvals'[Len(approvals')].status = "pending"
                        /\ approvals'[Len(approvals')].requested_by
                              = ClientUser
                   ELSE /\ draft_status' = draft_status
                        /\ approvals' = approvals]_vars

\* C21 witness: a submitted draft, whose second submission is refused
C21_Witness ==
    \E a \in DOMAIN approvals :
       /\ approvals[a].status = "pending"
       /\ approvals[a].requested_by = ClientUser
       /\ draft_status[approvals[a].content_draft_id] = "pending_review"
       /\ submit_for_approval_code(approvals[a].content_draft_id) = 400

\* C22: a decision on an ApprovalRequest that is not pending is refused,
\* whatever the decision, and changes neither a draft status nor a request.
C22_SecondDecisionFails ==
    [][\A a \in DOMAIN approvals, action \in ApprovalStatus :
          approvals[a].status # "pending"
             => /\ process_approval_code(a, action) >= 400
                /\ process_approval(a, action, ReviewerUser)
                      => /\ approvals' = approvals
                         /\ draft_status' = draft_status]_vars

\* C22 witness: a request rejected by a reviewer, on which every further
\* decision is refused
C22_Witness ==
    \E a \in DOMAIN approvals :
       /\ approvals[a].status = "rejected"
       /\ approvals[a].reviewer_id = ReviewerUser
       /\ draft_status[approvals[a].content_draft_id] = "rejected"
       /\ \A action \in Decisions : process_approval_code(a, action) = 400

C24_OnePendingPerDraft ==
    \A d \in DOMAIN draft_status : Cardinality(PendingOf(d)) <= 1

\* C24 witness: two drafts, each with its pending request
C24_Witness ==
    /\ Len(draft_status) >= 2
    /\ \A d \in 1..2 : Cardinality(PendingOf(d)) = 1

\* C25: an ApprovalRequest is never removed, and one that is approved,
\* rejected or changes-requested never changes again.
C25_HistoryAppendOnly ==
    [][\A a \in DOMAIN approvals :
          /\ a \in DOMAIN approvals'
          /\ approvals[a].status # "pending"
                => approvals'[a] = approvals[a]]_vars

\* C25 witness: a decided request kept as it was decided, while a later
\* request is still pending
C25_Witness ==
    /\ Len(approvals) >= 2
    /\ approvals[1].status # "pending"
    /\ approvals[1].reviewed
    /\ approvals[Len(approvals)].status = "pending"

\* C26: request_changes succeeds exactly when the draft is PENDING_REVIEW or
\* CHANGES_REQUESTED; a successful call leaves the draft CHANGES_REQUESTED
\* without a pending request: the pending request, if there was one, is
\* closed in place, otherwise one request is added, already closed; a failing
\* call changes nothing.
C26_RequestChanges ==
    [][\A d \in DraftIds :
          LET ok == /\ d \in DOMAIN draft_status
                    /\ draft_status[d] \in
                          {"pending_review", "changes_requested"}
          IN /\ request_changes_code(d) = 200 <=> ok
             /\ request_changes(d, ReviewerUser)
                   => IF ok
                      THEN /\ draft_status' = [draft_status EXCEPT
                                                 ![d] = "changes_requested"]
                           /\ \A a \in DOMAIN approvals' :
                                 approvals'[a].content_draft_id = d
                                    => approvals'[a].status # "pending"
                           /\ IF PendingOf(d) # {}
                              THEN /\ Len(approvals') = Len(approvals)
                                   /\ \A a \in PendingOf(d) :
                                         approvals'[a].status
                                            = "changes_requested"
                              ELSE /\ Len(approvals') = Len(approvals) + 1
                                   /\ SubSeq(approvals', 1, Len(approvals))
                                         = approvals
                                   /\ approvals'[Len(approvals')].status
                                         = "changes_requested"
                      ELSE /\ draft_status' = draft_status
                           /\ approvals' = approvals]_vars

\* C26 witness: a draft left CHANGES_REQUESTED with its submitted request
\* closed and a second request that request_changes created already closed
C26_Witness ==
    \E a \in DOMAIN approvals, b \in DOMAIN approvals :
       /\ approvals[a].content_draft_id = approvals[b].content_draft_id
       /\ draft_status[approvals[a].content_draft_id] = "changes_requested"
       /\ approvals[a].requested_by = ClientUser
       /\ approvals[a].status = "changes_requested"
       /\ approvals[b].requested_by = ReviewerUser
       /\ approvals[b].status = "changes_requested"

\* C27: schedule_post with a scheduled time earlier than or equal to the
\* current time is refused, creates no ScheduledPost and changes no draft
\* status.
C27_PastOrPresentTimeRefused ==
    [][\A d \in DOMAIN draft_status, o \in ScheduleOffsets :
          (o <= 0 /\ schedule_post(d, now + o))
             => /\ schedule_post_code(d, now + o) >= 400
                /\ posts' = posts
                /\ draft_status' = draft_status]_vars

\* C28: when the publish action reports success the post becomes posted
\* with posted_at, post_id and metrics set and its draft becomes PUBLISHED;
\* when it reports failure the post becomes failed with an error message and
\* no draft status changes (a SCHEDULED draft stays SCHEDULED).
C28_OutcomeRecorded ==
    [][\A t \in DOMAIN tasks :
          LET p == tasks[t].post
          IN /\ process_outcome(t, TRUE)
                   => /\ posts'[p].status = "posted"
                      /\ posts'[p].posted_at = now
                      /\ posts'[p].post_id # 0
                      /\ posts'[p].metrics
                      /\ draft_status'[posts[p].content_draft_id]
                            = "published"
             /\ process_outcome(t, FALSE)
                   => /\ posts'[p].status = "failed"
                      /\ posts'[p].error_message # ""
                      /\ posts'[p].posted_at = posts[p].posted_at
                      /\ draft_status' = draft_status]_vars

\* C28 witness: a failed post with its error message whose draft is still
\* SCHEDULED, after the publish action was invoked once
C28_Witness ==
    \E p \in DOMAIN posts :
       /\ posts[p].status = "failed"
       /\ posts[p].error_message # ""
       /\ publish_calls[p] = 1
       /\ draft_status[posts[p].content_draft_id] = "scheduled"

\* C29: a completed PAUSE or SET_CRISIS leaves the persisted gate closed;
\* once closed it is opened only by a RESUME, SET_NORMAL or SET_MANUAL; and
\* every dispatch attempt that makes its gate check while the persisted gate
\* is closed is gate-blocked and invokes no external publish action.
C29_PauseSeenAtNextGateCheck ==
    [][/\ \A action \in {"pause", "set_crisis"} :
             execute_action(action, NoUser)
                => GateBlocks(LoadControls(db_status'))
       /\ (GateBlocks(LoadControls(db_status))
              /\ ~GateBlocks(LoadControls(db_status')))
             => \E action \in {"resume", "set_normal", "set_manual"} :
                   execute_action(action, NoUser)
       /\ \A t \in DOMAIN tasks :
             ( /\ GateBlocks(LoadControls(db_status))
               /\ posts[tasks[t].post].status = "pending"
               /\ process_start(t) )
             => /\ tasks'[t].pc = "blocked"
                /\ publish_calls' = publish_calls
       /\ \A d \in DOMAIN draft_status :
             (GateBlocks(LoadControls(db_status)) /\ publish_now(d))
                => /\ publish_calls' = publish_calls
                   /\ tasks' = tasks]_vars

\* C29 witness: a background task was gate-blocked by a pause executed in
\* normal mode after its post was scheduled; the post was never published
C29_Witness ==
    \E t \in DOMAIN tasks :
       /\ tasks[t].pc = "blocked"
       /\ ~tasks[t].inline
       /\ publish_calls[tasks[t].post] = 0
       /\ db_status = [mode |-> "normal", paused |-> TRUE]

\* C30: a background dispatch attempt that makes its gate check while
\* can_auto_post() is false (manual mode, crisis mode or paused) ends
\* there and invokes no external publish action.
C30_ManualModeBlocksDispatch ==
    [][\A t \in DOMAIN tasks :
          ( /\ ~can_auto_post(LoadControls(db_status))
            /\ posts[tasks[t].post].status = "pending"
            /\ ~tasks[t].inline
            /\ process_start(t) )
          => /\ tasks'[t].pc = "blocked"
             /\ publish_calls' = publish_calls]_vars

\* C31: when the dispatch attempt awaited by publish_now has recorded its
\* outcome and publish_now returns, the status in its response equals the
\* stored status of the post.
C31_PublishNowReturnsStoredStatus ==
    [][\A t \in DOMAIN tasks :
          (tasks[t].inline /\ (process_outcome(t, TRUE)
                                  \/ process_outcome(t, FALSE)))
             => publish_now_response(tasks[t].post).status
                   = posts'[tasks[t].post].status]_vars

\* C32: a dispatch attempt that raises after it found its post pending ends
\* with the post failed and the error recorded, or with the stored post as
\* it was; no draft status changes, the post is never left posted by it
\* without its draft PUBLISHED, and the task returns normally.
C32_ExceptionMarksFailed ==
    [][\A t \in DOMAIN tasks, committed \in BOOLEAN :
          process_exception(t, committed)
             => LET p == tasks[t].post
                IN /\ \/ /\ posts'[p].status = "failed"
                         /\ posts'[p].error_message = "exception"
                      \/ posts'[p] = posts[p]
                   /\ posts'[p].status = "posted"
                         => posts[p].status = "posted"
                   /\ draft_status' = draft_status
                   /\ tasks'[t].pc = "done"
                   /\ \A q \in DOMAIN posts : q # p => posts'[q] = posts[q]]_vars

\* C32 witness: an attempt that raised at the publish action and ended
\* with its post failed, the error recorded, and its draft still SCHEDULED
C32_Witness ==
    \E t \in DOMAIN tasks :
       /\ tasks[t].pc = "done"
       /\ publish_calls[tasks[t].post] = 1
       /\ posts[tasks[t].post].status = "failed"
       /\ posts[tasks[t].post].error_message = "exception"
       /\ draft_status[posts[tasks[t].post].content_draft_id] = "scheduled"

NormalUnpaused == LoadControls(db_status) = [mode |-> "normal", paused |-> FALSE]

\* C33: with the gate NORMAL and not paused, each step of the happy path
\* gives the next stage: submitting a DRAFT gives PENDING_REVIEW with one
\* pending request; approving it gives APPROVED with the request closed as
\* approved; scheduling it for a future time gives SCHEDULED with one pending
\* post; the dispatch attempt waits for the time and goes to the publish
\* action; a successful publish gives the post posted with its post id set
\* and the draft PUBLISHED.
C33_HappyPath ==
    [][\A d \in DOMAIN draft_status :
          /\ (draft_status[d] = "draft" /\ submit_for_approval(d, ClientUser))
                => /\ draft_status'[d] = "pending_review"
                   /\ Cardinality({a \in DOMAIN approvals' :
                         /\ approvals'[a].content_draft_id = d
                         /\ approvals'[a].status = "pending"}) = 1
          /\ \A a \in PendingOf(d) :
                ( /\ draft_status[d] = "pending_review"
                  /\ process_approval(a, "approved", ReviewerUser) )
                => /\ draft_status'[d] = "approved"
                   /\ approvals'[a].status = "approved"
                   /\ approvals'[a].reviewer_id = ReviewerUser
          /\ ( /\ draft_status[d] = "approved"
               /\ NormalUnpaused
               /\ schedule_post(d, now + 1) )
                => /\ draft_status'[d] = "scheduled"
                   /\ Cardinality({p \in DOMAIN posts' :
                         /\ posts'[p].content_draft_id = d
                         /\ posts'[p].status = "pending"}) = 1
                   /\ Len(tasks') = Len(tasks) + 1
          /\ \A t \in DOMAIN tasks :
                posts[tasks[t].post].content_draft_id = d
                => /\ ( /\ NormalUnpaused
                        /\ posts[tasks[t].post].status = "pending"
                        /\ process_start(t) )
                      => tasks'[t].pc =
                            IF posts[tasks[t].post].scheduled_for > now
                            THEN "sleeping" ELSE "posting"
                   /\ process_wake(t)
                      => /\ tasks'[t].pc = "posting"
                         /\ now' >= posts[tasks[t].post].scheduled_for
                   /\ process_outcome(t, TRUE)
                      => /\ posts'[tasks[t].post].status = "posted"
                         /\ posts'[tasks[t].post].post_id # 0
                         /\ draft_status'[d] = "published"]_vars

\* C33 witness: a draft submitted by the client and approved by the
\* reviewer is PUBLISHED, its post posted at its scheduled time with the
\* post id set, the gate NORMAL and not paused
C33_Witness ==
    \E p \in DOMAIN posts, a \in DOMAIN approvals :
       /\ approvals[a].content_draft_id = posts[p].content_draft_id
       /\ approvals[a].status = "approved"
       /\ approvals[a].requested_by = ClientUser
       /\ draft_status[posts[p].content_draft_id] = "published"
       /\ posts[p].status = "posted"
       /\ posts[p].post_id # 0
       /\ posts[p].scheduled_for > 0
       /\ posts[p].posted_at >= posts[p].scheduled_for
       /\ PendingOf(posts[p].content_draft_id) = {}
       /\ NormalUnpaused

\* C34: the pending listing of a client is exactly the client's own pending
\* requests, and the listing of an admin or a reviewer is all pending
\* requests, both oldest first.
C34_PendingListing ==
    LET Own(a) == /\ approvals[a].status = "pending"
                  /\ approvals[a].requested_by = ClientUser
        Pending(a) == approvals[a].status = "pending"
        Ids == [a \in 1..Len(approvals) |-> a]
    IN /\ pending_listing(ClientUser) = SelectSeq(Ids, Own)
       /\ pending_listing(ReviewerUser) = SelectSeq(Ids, Pending)
       /\ pending_listing(AdminUser) = SelectSeq(Ids, Pending)

\* C35: while the persisted gate is paused, MANUAL or CRISIS, schedule_post
\* answers 423 whatever the draft and the time are, creates no post, changes
\* no draft status and starts no task; while it is paused or CRISIS,
\* publish_now answers 423 in the same way.
C35_GateCheckedFirst ==
    [][LET c == LoadControls(db_status)
       IN \A d \in DraftIds :
             /\ (c.paused \/ c.mode \in {"manual", "crisis"})
                   => \A o \in ScheduleOffsets :
                         /\ schedule_post_code(d, now + o) = 423
                         /\ schedule_post(d, now + o)
                               => /\ posts' = posts
                                  /\ draft_status' = draft_status
                                  /\ tasks' = tasks
                                  /\ publish_calls' = publish_calls
             /\ (c.paused \/ c.mode = "crisis")
                   => /\ publish_now_code(d) = 423
                      /\ publish_now(d)
                            => /\ posts' = posts
                               /\ draft_status' = draft_status
                               /\ tasks' = tasks
                               /\ publish_calls' = publish_calls]_vars

\* C35 witness: in MANUAL mode, not paused, an APPROVED draft that
\* publish_now would take is refused by schedule_post
C35_Witness ==
    /\ db_status = [mode |-> "manual", paused |-> FALSE]
    /\ \E d \in DOMAIN draft_status :
          /\ draft_status[d] = "approved"
          /\ schedule_post_code(d, now + 1) = 423
          /\ publish_now_code(d) = 200

PendingPostsOf(d) ==
    {p \in DOMAIN posts : /\ posts[p].content_draft_id = d
                           /\ posts[p].status = "pending"}

\* C37: a draft never has two pending ScheduledPosts.
C37_OnePendingPostPerDraft ==
    \A d \in DOMAIN draft_status : Cardinality(PendingPostsOf(d)) <= 1

\* C38: the dispatch task invokes the external publish action for a post,
\* and sets a draft PUBLISHED, only when the draft is SCHEDULED at that
\* moment.
C38_PublishOnlyScheduled ==
    [][/\ \A p \in DOMAIN posts :
             publish_calls'[p] > publish_calls[p]
                => draft_status[posts[p].content_draft_id] = "scheduled"
       /\ \A d \in DOMAIN draft_status :
             (draft_status'[d] = "published" /\ draft_status[d] # "published")
                => draft_status[d] = "scheduled"]_vars

\* C39: the mode reported by the health check, read from the process-wide
\* SystemControls object, is the mode last persisted by execute_action.
C39_OneGateState ==
    db_status # NoRow => health_check_system_mode = db_status.mode

====
